---- MODULE Spec2Model ----
(***************************************************************************)
(* Lease lifecycle of the sandbox account pool: lease_account.py (the      *)
(* acquirer), release_account.py (the releaser) and janitor.py (the        *)
(* sweep), running as independent processes against one DynamoDB table.    *)
(* Every table call is one atomic step; the external calls (STS, the       *)
(* cloud-nuke subprocess, IAM) are steps with a nondeterministic outcome.  *)
(***************************************************************************)
EXTENDS Integers, Sequences, FiniteSets, TLC

\* ------------------------------------------------------------------ bounds
MaxTicks == 1
MaxAcquires == 2
MaxReleases == 2
MaxSweeps == 1
\* LEASE_TIMEOUT of the environment (the code's default is 10 seconds)
TIMEOUT_SECONDS == 3

\* ------------------------------------------------------- program constants
RETRY_INTERVAL == 2
\* timedelta(hours=3), in seconds
FAILED_AGE_SECONDS == 10800

\* item.get('lease_timestamp') of an item without the attribute
NoTs == -1
\* a lease_timestamp string datetime.fromisoformat rejects
BadTs == -2

Accounts == {"A", "B"}
\* an account id that has no item in the table
UnknownId == "Z"
NoAcct == "none"
Acquirers == {"a1", "a2"}
StsOutcomes == {"ok", "ValidationError", "other"}
IamOutcomes == {"deleted", "NoSuchEntity", "other"}
Releasers == {"r1"}
Janitor == "j"
RelProcs == Releasers \cup {Janitor}
Targets == {"AVAILABLE", "FAILED"}

VARIABLES table, clock, acq, rel, jan, last, wins, holders, nAcq, nRel, nSweep, ticks

vars == <<table, clock, acq, rel, jan, last, wins, holders, nAcq, nRel, nSweep, ticks>>

\* --------------------------------------------------------- the table (store)
Item(st, ts) == [status |-> st, ts |-> ts]

\* table.scan(FilterExpression=Attr('status').eq(st)): the matching account ids
ScanIds(t, st) == {x \in DOMAIN t : t[x].status = st}

\* a scan returns its items in no defined order: every ordering of the ids
Orders(S) == {s \in [1..Cardinality(S) -> S] : \A i, j \in 1..Cardinality(S) : i # j => s[i] # s[j]}

\* update_item writes the item under the key, creating it when it is absent
PutItem(t, x, it) == [y \in DOMAIN t \cup {x} |-> IF y = x THEN it ELSE t[y]]

\* the lease_timestamp attribute an update that does not touch it leaves behind
KeptTs(t, x) == IF x \in DOMAIN t THEN t[x].ts ELSE NoTs

\* ConditionExpression "#s = :available" of the claim
ClaimCondMutant(t, x) == x \in DOMAIN t
ClaimCondAnyStatus(t, x) == x \in DOMAIN t /\ t[x].status \in {"AVAILABLE", "IN_USE"}
ClaimCond(t, x) == x \in DOMAIN t /\ t[x].status = "AVAILABLE"

\* "SET #s = :in_use, lease_timestamp = :ts" with :ts = now
ClaimUpdateMutant(t, x, now) == PutItem(t, x, Item("IN_USE", KeptTs(t, x)))
ClaimUpdate(t, x, now) == PutItem(t, x, Item("IN_USE", now))

\* lease_account's "SET #s = :dirty": unconditional, lease_timestamp untouched
LeaseMarkDirtyMutant(t, x) == PutItem(t, x, Item("IN_USE", KeptTs(t, x)))
LeaseMarkDirtyNoop(t, x) == t
LeaseMarkDirty(t, x) == PutItem(t, x, Item("DIRTY", KeptTs(t, x)))

\* release_account's "SET #s = :failed": unconditional, lease_timestamp untouched
MarkFailedStamps(t, x) == PutItem(t, x, Item("FAILED", IF KeptTs(t, x) >= 0 THEN KeptTs(t, x) + 1 ELSE 0))
MarkFailedMutant(t, x) == PutItem(t, x, Item("FAILED", NoTs))
MarkFailed(t, x) == PutItem(t, x, Item("FAILED", KeptTs(t, x)))

\* release_account's "SET #s = :dirty REMOVE lease_timestamp": unconditional
ReleaseMarkDirtyLeavesStatus(t, x) == PutItem(t, x, Item(t[x].status, NoTs))
ReleaseMarkDirtyMutant(t, x) == PutItem(t, x, Item("DIRTY", KeptTs(t, x)))
ReleaseMarkDirty(t, x) == PutItem(t, x, Item("DIRTY", NoTs))

\* ConditionExpression "attribute_exists(account_id)" of the final release
ReleaseCond(t, x) == x \in DOMAIN t

\* "SET #s = :status REMOVE lease_timestamp"
ReleaseUpdateMutant(t, x, st) == PutItem(t, x, Item(st, KeptTs(t, x)))
ReleaseUpdate(t, x, st) == PutItem(t, x, Item(st, NoTs))

\* `if not all_items` of the initial check
PoolEmptyMutant(t) == FALSE
PoolEmpty(t) == DOMAIN t = {}

\* `time.time() - start_time >= TIMEOUT_SECONDS`
ExpiredLate(now, start) == now - start >= TIMEOUT_SECONDS + FAILED_AGE_SECONDS
Expired(now, start) == now - start >= TIMEOUT_SECONDS

\* the time after time.sleep(RETRY_INTERVAL) that ends a poll cycle
SleptMutant(now) == now
Slept(now) == now + RETRY_INTERVAL

\* current_status not in ['IN_USE', 'FAILED']
LeasedMutant(st) == st \in {"IN_USE", "FAILED", "DIRTY"}
Leased(st) == st \in {"IN_USE", "FAILED"}

\* the janitor's decision for one scanned item: no timestamp, an unparsable
\* one, or age > timedelta(hours=3)
EligibleAtThreshold(ts, now) == IF ts = NoTs THEN TRUE ELSE IF ts = BadTs THEN TRUE ELSE now - ts >= FAILED_AGE_SECONDS
EligibleByAgeOnly(ts, now) == IF ts = NoTs THEN TRUE ELSE IF ts = BadTs THEN FALSE ELSE now - ts > FAILED_AGE_SECONDS
Eligible(ts, now) == IF ts = NoTs THEN TRUE ELSE IF ts = BadTs THEN TRUE ELSE now - ts > FAILED_AGE_SECONDS

\* ------------------------------------------------------------ initial state
\* the local variables of one lease_account process (and what it did so far)
AcqInit == [pc |-> "idle", start |-> 0, scan |-> <<>>, i |-> 0, acct |-> NoAcct, calls |-> <<>>, sawAvail |-> FALSE, claimed |-> {}, claimedAt |-> NoTs]

\* the local variables of one release_account call
RelInit == [pc |-> "idle", acct |-> NoAcct, target |-> "AVAILABLE", current |-> "none", calls |-> <<>>, after |-> FALSE, exit |-> 0]

JanInit == [pc |-> "idle", failed |-> <<>>, k |-> 0, now |-> 0]

\* the latest outcome a process reported: its exit status and what it printed
NoOutput == [proc |-> "none", kind |-> "none", exit |-> 0, doc |-> FALSE, acct |-> NoAcct, target |-> "none", current |-> "none", calls |-> <<>>, claimed |-> {}, claimedAt |-> NoTs, sawAvail |-> FALSE, reported |-> {}]

\* an outcome is recorded where the specification observes the outputs, and
\* so is what a process has done so far (its calls, its claims)
Emit(obs, d) == last' = IF obs THEN d ELSE NoOutput
Note(obs, v, unobserved) == IF obs THEN v ELSE unobserved

\* the pool is provisioned out of band, every record AVAILABLE
PoolOf(S) == [x \in S |-> Item("AVAILABLE", NoTs)]

InitProcs ==
    /\ clock = 0
    /\ acq = [a \in Acquirers |-> AcqInit]
    /\ rel = [p \in RelProcs |-> RelInit]
    /\ jan = JanInit
    /\ last = NoOutput
    /\ wins = [x \in Accounts |-> 0]
    /\ holders = [x \in Accounts |-> 0]
    /\ nAcq = 0
    /\ nRel = 0
    /\ nSweep = 0
    /\ ticks = 0

\* the processes race for one pooled account
Init == table = PoolOf({"A"}) /\ InitProcs

\* ------------------------------------------------- lease_account.py: acquire
\* what a lease_account process leaves behind when it ends: `return` after
\* the success document (exit 0), or sys.exit(1)
AcqOutput(a, r, kind, code) == [NoOutput EXCEPT !.proc = a, !.kind = kind, !.exit = code, !.acct = r.acct, !.calls = r.calls, !.claimed = r.claimed, !.claimedAt = r.claimedAt, !.sawAvail = r.sawAvail]

\* initial check: an unfiltered scan; an empty table or a scan error ends the
\* run with exit 1 before the poll loop, otherwise start_time is taken
LeaseStart(a, obs) ==
    /\ acq[a].pc = "idle"
    /\ nAcq < MaxAcquires
    /\ nAcq' = nAcq + 1
    /\ \E ok \in BOOLEAN :
         IF ~ok
         THEN acq' = acq /\ Emit(obs, AcqOutput(a, AcqInit, "scan_error", 1))
         ELSE IF PoolEmpty(table)
         THEN acq' = acq /\ Emit(obs, AcqOutput(a, AcqInit, "config", 1))
         ELSE acq' = [acq EXCEPT ![a] = [AcqInit EXCEPT !.pc = "loop", !.start = clock]] /\ last' = last
    /\ UNCHANGED <<table, clock, rel, jan, wins, holders, nRel, nSweep, ticks>>

\* head of the while loop with the deadline open, then the AVAILABLE scan; a
\* scan error is logged by the outer handler and time.sleep(RETRY_INTERVAL)
\* ends the cycle
LeaseScan(a, obs) ==
    /\ acq[a].pc = "loop"
    /\ ~Expired(clock, acq[a].start)
    /\ \E ok \in BOOLEAN :
         IF ~ok
         THEN acq' = acq /\ clock' = Slept(clock)
         ELSE /\ \E order \in Orders(ScanIds(table, "AVAILABLE")) :
                   acq' = [acq EXCEPT ![a].pc = "for", ![a].scan = order, ![a].i = 0,
                                      ![a].sawAvail = Note(obs, @ \/ order # <<>>, FALSE)]
              /\ clock' = clock
    /\ UNCHANGED <<table, rel, jan, last, wins, holders, nAcq, nRel, nSweep, ticks>>

\* what the timeout diagnostic lists: the ids of the IN_USE scan, nothing when
\* the scan raised
DiagnosticMutant(t, ok) == IF ok THEN DOMAIN t ELSE {}
Diagnostic(t, ok) == IF ok THEN ScanIds(t, "IN_USE") ELSE {}

\* the while condition fails: the IN_USE scan for the diagnostic (its error is
\* only printed), then sys.exit(1)
LeaseTimeout(a, obs) ==
    /\ acq[a].pc = "loop"
    /\ Expired(clock, acq[a].start)
    /\ \E ok \in BOOLEAN :
         Emit(obs, [AcqOutput(a, acq[a], "timeout", 1) EXCEPT !.reported = Diagnostic(table, ok)])
    /\ acq' = [acq EXCEPT ![a] = AcqInit]
    /\ UNCHANGED <<table, clock, rel, jan, wins, holders, nAcq, nRel, nSweep, ticks>>

\* the candidate loop is over (exhausted, or the deadline check breaks out):
\* time.sleep(RETRY_INTERVAL), back to the while condition
LeaseForEnd(a, obs) ==
    /\ acq[a].pc = "for"
    /\ acq[a].i >= Len(acq[a].scan) \/ Expired(clock, acq[a].start)
    /\ acq' = [acq EXCEPT ![a].pc = "loop", ![a].scan = <<>>, ![a].i = 0]
    /\ clock' = Slept(clock)
    /\ UNCHANGED <<table, rel, jan, last, wins, holders, nAcq, nRel, nSweep, ticks>>

\* the conditional update of the next candidate: the claim
LeaseClaim(a, obs) ==
    /\ acq[a].pc = "for"
    /\ acq[a].i < Len(acq[a].scan)
    /\ ~Expired(clock, acq[a].start)
    /\ LET x == acq[a].scan[acq[a].i + 1] IN
       \E ok \in BOOLEAN :
         IF ~ok
         THEN \* any error but ConditionalCheckFailedException is re-raised to
              \* the outer handler: logged, then the sleep
              /\ acq' = [acq EXCEPT ![a].pc = "loop", ![a].scan = <<>>, ![a].i = 0]
              /\ clock' = Slept(clock)
              /\ UNCHANGED <<table, wins>>
         ELSE IF ClaimCond(table, x)
         THEN /\ table' = ClaimUpdate(table, x, clock)
              /\ acq' = [acq EXCEPT ![a].pc = "work", ![a].i = @ + 1, ![a].acct = x,
                                    ![a].calls = Note(obs, <<"claim">>, <<>>),
                                    ![a].claimed = Note(obs, @ \cup {x}, {}),
                                    ![a].claimedAt = Note(obs, clock, NoTs)]
              /\ wins' = [wins EXCEPT ![x] = IF @ < 2 THEN @ + 1 ELSE @]
              /\ clock' = clock
         ELSE \* ConditionalCheckFailedException: next account of the loop
              /\ acq' = [acq EXCEPT ![a].i = @ + 1]
              /\ UNCHANGED <<table, wins, clock>>
    /\ UNCHANGED <<rel, jan, last, holders, nAcq, nRel, nSweep, ticks>>

\* sts.assume_role with DurationSeconds=14400, retried once with 3600 on a
\* ValidationError: the calls made with their outcomes, and whether
\* credentials came back
AssumeCallsMutant(sts1, sts2) ==
    IF sts1 = "ok" THEN <<"sts14400_ok">>
    ELSE <<IF sts1 = "other" THEN "sts14400_err" ELSE "sts14400_validation", IF sts2 THEN "sts3600_ok" ELSE "sts3600_err">>

AssumeCalls(sts1, sts2) ==
    IF sts1 = "ok" THEN <<"sts14400_ok">>
    ELSE IF sts1 = "other" THEN <<"sts14400_err">>
    ELSE <<"sts14400_validation", IF sts2 THEN "sts3600_ok" ELSE "sts3600_err">>

AssumeOk(sts1, sts2) == sts1 = "ok" \/ (sts1 = "ValidationError" /\ sts2)

\* the cleanup of sandbox-temporary-user: a NoSuchEntity from user.load() is
\* passed over, any other ClientError is raised
IamCall(iam) == IF iam = "deleted" THEN "teardown_ok" ELSE IF iam = "NoSuchEntity" THEN "teardown_absent" ELSE "teardown_err"
IamOkMutant(iam) == iam = "deleted"
IamOk(iam) == iam # "other"

\* the locked account up to the next table call or the end of the run:
\* assume_role, cloud-nuke, the cleanup of an existing user, create_user with
\* its access key.  The outcomes of the external calls are the parameters; the
\* result is the calls made and where the run stands
AfterClaimMarksDirty(calls, sts1, sts2, nuke, iam, prov) ==
    LET c1 == calls \o AssumeCalls(sts1, sts2) IN
    IF ~AssumeOk(sts1, sts2) THEN [calls |-> c1, to |-> "fatal"]
    ELSE IF ~nuke THEN [calls |-> Append(c1, "nuke_failed"), to |-> "dirty"]
    ELSE IF ~IamOk(iam) THEN [calls |-> c1 \o <<"nuke_ok", IamCall(iam)>>, to |-> "dirty"]
    ELSE IF ~prov THEN [calls |-> c1 \o <<"nuke_ok", IamCall(iam), "provision_err">>, to |-> "dirty"]
    ELSE [calls |-> c1 \o <<"nuke_ok", IamCall(iam), "provision_ok">>, to |-> "success"]

AfterClaimSkipsNuke(calls, sts1, sts2, nuke, iam, prov) ==
    LET c1 == calls \o AssumeCalls(sts1, sts2)
        c2 == Append(c1, IF nuke THEN "nuke_ok" ELSE "nuke_failed") IN
    IF ~AssumeOk(sts1, sts2) THEN [calls |-> c1, to |-> "fatal"]
    ELSE IF ~IamOk(iam) THEN [calls |-> Append(c2, IamCall(iam)), to |-> "fatal"]
    ELSE IF ~prov THEN [calls |-> c2 \o <<IamCall(iam), "provision_err">>, to |-> "fatal"]
    ELSE [calls |-> c2 \o <<IamCall(iam), "provision_ok">>, to |-> "success"]

AfterClaim(calls, sts1, sts2, nuke, iam, prov) ==
    LET c1 == calls \o AssumeCalls(sts1, sts2) IN
    IF ~AssumeOk(sts1, sts2) THEN [calls |-> c1, to |-> "fatal"]
    ELSE IF ~nuke THEN [calls |-> Append(c1, "nuke_failed"), to |-> "dirty"]
    ELSE IF ~IamOk(iam) THEN [calls |-> c1 \o <<"nuke_ok", IamCall(iam)>>, to |-> "fatal"]
    ELSE IF ~prov THEN [calls |-> c1 \o <<"nuke_ok", IamCall(iam), "provision_err">>, to |-> "fatal"]
    ELSE [calls |-> c1 \o <<"nuke_ok", IamCall(iam), "provision_ok">>, to |-> "success"]

LeaseWork(a, obs) ==
    /\ acq[a].pc = "work"
    /\ \E w \in {AfterClaim(<<"claim">>, sts1, sts2, nuke, iam, prov) :
                   sts1 \in StsOutcomes, sts2 \in BOOLEAN, nuke \in BOOLEAN, iam \in IamOutcomes, prov \in BOOLEAN} :
         LET r == [acq[a] EXCEPT !.calls = Note(obs, w.calls, <<>>)] IN
         IF w.to = "dirty"
         THEN /\ acq' = [acq EXCEPT ![a] = [r EXCEPT !.pc = "dirty"]]
              /\ UNCHANGED <<last, holders, rel>>
         ELSE IF w.to = "fatal"
         THEN /\ acq' = [acq EXCEPT ![a] = AcqInit]
              /\ Emit(obs, AcqOutput(a, r, "fatal", 1))
              /\ UNCHANGED <<holders, rel>>
         ELSE /\ acq' = [acq EXCEPT ![a] = AcqInit]
              /\ Emit(obs, AcqOutput(a, r, "success", 0))
              /\ holders' = [holders EXCEPT ![r.acct] = IF @ < 2 THEN @ + 1 ELSE @]
              /\ rel' = [p \in RelProcs |->
                           IF rel[p].acct = r.acct THEN [rel[p] EXCEPT !.after = FALSE] ELSE rel[p]]
    /\ UNCHANGED <<table, clock, jan, wins, nAcq, nRel, nSweep, ticks>>

\* cloud-nuke failed: mark DIRTY and `continue` (account_id is assigned anew
\* by the next iteration); an error of this update is caught by the handler
\* that ends the run
LeaseDirty(a, obs) ==
    /\ acq[a].pc = "dirty"
    /\ \E ok \in BOOLEAN :
         IF ok
         THEN /\ table' = LeaseMarkDirty(table, acq[a].acct)
              /\ acq' = [acq EXCEPT ![a].pc = "for", ![a].acct = NoAcct]
              /\ last' = last
         ELSE /\ acq' = [acq EXCEPT ![a] = AcqInit]
              /\ Emit(obs, AcqOutput(a, acq[a], "fatal", 1))
              /\ UNCHANGED table
    /\ UNCHANGED <<clock, rel, jan, wins, holders, nAcq, nRel, nSweep, ticks>>

AcquirerStep(a, obs) ==
    \/ LeaseStart(a, obs) \/ LeaseScan(a, obs) \/ LeaseTimeout(a, obs) \/ LeaseForEnd(a, obs)
    \/ LeaseClaim(a, obs) \/ LeaseWork(a, obs) \/ LeaseDirty(a, obs)

\* --------------------------------------------- release_account.py: release
\* what a release_account call leaves behind when it ends: `return` (exit 0)
\* or an error path's sys.exit(1); doc tells whether the JSON error document
\* was printed
RelOutput(p, r, kind, code, doc) == [NoOutput EXCEPT !.proc = p, !.kind = kind, !.exit = code, !.doc = doc, !.acct = r.acct, !.target = r.target, !.current = r.current, !.calls = r.calls]

\* the janitor is the one caller that survives the call and sees how it ended
RelEnd(p, code) == IF p = Janitor THEN [RelInit EXCEPT !.exit = code] ELSE RelInit

\* the cleanup up to the next table call: assume_role (3600 s), cloud-nuke,
\* deletion of sandbox-temporary-user (NoSuchEntity is only reported)
CleanupProceeds(sts, nuke, iam) ==
    IF ~sts THEN [calls |-> <<"sts3600_err">>, to |-> "final"]
    ELSE IF ~nuke THEN [calls |-> <<"sts3600_ok", "nuke_failed">>, to |-> "nukefail"]
    ELSE [calls |-> <<"sts3600_ok", "nuke_ok", IamCall(iam)>>, to |-> "final"]

CleanupIgnoresNuke(sts, nuke, iam) ==
    IF ~sts THEN [calls |-> <<"sts3600_err">>, to |-> "cleanupfail"]
    ELSE LET c == <<"sts3600_ok", IF nuke THEN "nuke_ok" ELSE "nuke_failed", IamCall(iam)>> IN
         IF ~IamOk(iam) THEN [calls |-> c, to |-> "cleanupfail"] ELSE [calls |-> c, to |-> "final"]

Cleanup(sts, nuke, iam) ==
    IF ~sts THEN [calls |-> <<"sts3600_err">>, to |-> "cleanupfail"]
    ELSE IF ~nuke THEN [calls |-> <<"sts3600_ok", "nuke_failed">>, to |-> "nukefail"]
    ELSE IF ~IamOk(iam) THEN [calls |-> <<"sts3600_ok", "nuke_ok", IamCall(iam)>>, to |-> "cleanupfail"]
    ELSE [calls |-> <<"sts3600_ok", "nuke_ok", IamCall(iam)>>, to |-> "final"]

\* release_account(x, tgt) from its get_item to the update that follows: the
\* two checks on the item, and for the target AVAILABLE the cleanup
EnteredMutant(t, x, tgt, ok, sts, nuke, iam, obs) ==
    LET r == [RelInit EXCEPT !.acct = x, !.target = tgt]
        st == IF x \in DOMAIN t THEN t[x].status ELSE "none" IN
    IF ~ok THEN [r EXCEPT !.pc = "store_error"]
    ELSE IF x \in DOMAIN t /\ ~Leased(st) THEN [r EXCEPT !.pc = "not_leased", !.current = st]
    ELSE IF tgt = "FAILED" THEN [r EXCEPT !.pc = "markfailed", !.current = st, !.after = TRUE]
    ELSE [r EXCEPT !.pc = Cleanup(sts, nuke, iam).to, !.calls = Note(obs, Cleanup(sts, nuke, iam).calls, <<>>),
                   !.current = st, !.after = TRUE]

Entered(t, x, tgt, ok, sts, nuke, iam, obs) ==
    LET r == [RelInit EXCEPT !.acct = x, !.target = tgt] IN
    IF ~ok THEN [r EXCEPT !.pc = "store_error"]
    ELSE IF x \notin DOMAIN t THEN [r EXCEPT !.pc = "not_found"]
    ELSE IF ~Leased(t[x].status) THEN [r EXCEPT !.pc = "not_leased", !.current = t[x].status]
    ELSE IF tgt = "FAILED" THEN [r EXCEPT !.pc = "markfailed", !.current = t[x].status, !.after = TRUE]
    ELSE [r EXCEPT !.pc = Cleanup(sts, nuke, iam).to, !.calls = Note(obs, Cleanup(sts, nuke, iam).calls, <<>>),
                   !.current = t[x].status, !.after = TRUE]

RelBegin(p, x, tgt, obs) ==
    \E r \in {Entered(table, x, tgt, ok, sts, nuke, iam, obs) :
                ok \in BOOLEAN, sts \in BOOLEAN, nuke \in BOOLEAN, iam \in IamOutcomes} :
      IF r.pc \in {"store_error", "not_found", "not_leased"}
      THEN /\ rel' = [rel EXCEPT ![p] = RelEnd(p, 1)]
           /\ Emit(obs, RelOutput(p, r, r.pc, 1, TRUE))
      ELSE /\ rel' = [rel EXCEPT ![p] = r]
           /\ last' = last

\* the command line: release_account.py <account_id> [--status AVAILABLE|FAILED]
ReleaseStart(p, obs) ==
    /\ p \in Releasers
    /\ rel[p].pc = "idle"
    /\ nRel < MaxReleases
    /\ nRel' = nRel + 1
    /\ \E x \in Accounts \cup {UnknownId}, tgt \in Targets : RelBegin(p, x, tgt, obs)
    /\ UNCHANGED <<table, clock, acq, jan, wins, holders, nAcq, nSweep, ticks>>

\* status == 'FAILED': no cleanup, the status alone is written
ReleaseMarkFailed(p, obs) ==
    /\ rel[p].pc = "markfailed"
    /\ \E ok \in BOOLEAN :
         IF ok
         THEN /\ table' = MarkFailed(table, rel[p].acct)
              /\ rel' = [rel EXCEPT ![p] = RelEnd(p, 0)]
              /\ Emit(obs, RelOutput(p, rel[p], "ok", 0, FALSE))
         ELSE /\ rel' = [rel EXCEPT ![p] = RelEnd(p, 1)]
              /\ Emit(obs, RelOutput(p, rel[p], "store_error", 1, TRUE))
              /\ UNCHANGED table
    /\ UNCHANGED <<clock, acq, jan, wins, holders, nAcq, nRel, nSweep, ticks>>

\* cloud-nuke failed: mark DIRTY, print the error document, sys.exit(1); an
\* error of the update lands in the cleanup handler below
ReleaseNukeFail(p, obs) ==
    /\ rel[p].pc = "nukefail"
    /\ \E ok \in BOOLEAN :
         IF ok
         THEN /\ table' = ReleaseMarkDirty(table, rel[p].acct)
              /\ rel' = [rel EXCEPT ![p] = RelEnd(p, 1)]
              /\ Emit(obs, RelOutput(p, rel[p], "nuke_failed", 1, TRUE))
         ELSE /\ rel' = [rel EXCEPT ![p].pc = "cleanupfail"]
              /\ UNCHANGED <<table, last>>
    /\ UNCHANGED <<clock, acq, jan, wins, holders, nAcq, nRel, nSweep, ticks>>

\* `except Exception` of the cleanup: mark DIRTY and sys.exit(1) with no
\* error document; a ClientError of this update reaches the outer handler
ReleaseCleanupFail(p, obs) ==
    /\ rel[p].pc = "cleanupfail"
    /\ \E ok \in BOOLEAN :
         IF ok
         THEN /\ table' = ReleaseMarkDirty(table, rel[p].acct)
              /\ Emit(obs, RelOutput(p, rel[p], "cleanup_failed", 1, FALSE))
         ELSE /\ Emit(obs, RelOutput(p, rel[p], "store_error", 1, TRUE))
              /\ UNCHANGED table
    /\ rel' = [rel EXCEPT ![p] = RelEnd(p, 1)]
    /\ UNCHANGED <<clock, acq, jan, wins, holders, nAcq, nRel, nSweep, ticks>>

\* "Proceed to release": the final update, conditioned on the item existing
ReleaseFinal(p, obs) ==
    /\ rel[p].pc = "final"
    /\ \E ok \in BOOLEAN :
         IF ok /\ ReleaseCond(table, rel[p].acct)
         THEN /\ table' = ReleaseUpdate(table, rel[p].acct, rel[p].target)
              /\ rel' = [rel EXCEPT ![p] = RelEnd(p, 0)]
              /\ Emit(obs, RelOutput(p, rel[p], "ok", 0, FALSE))
              /\ wins' = [wins EXCEPT ![rel[p].acct] = 0]
              /\ holders' = [holders EXCEPT ![rel[p].acct] = IF rel[p].after THEN 0 ELSE @]
         ELSE /\ rel' = [rel EXCEPT ![p] = RelEnd(p, 1)]
              /\ Emit(obs, RelOutput(p, rel[p], "store_error", 1, TRUE))
              /\ UNCHANGED <<table, wins, holders>>
    /\ UNCHANGED <<clock, acq, jan, nAcq, nRel, nSweep, ticks>>

ReleaseStep(p, obs) ==
    \/ ReleaseMarkFailed(p, obs) \/ ReleaseNukeFail(p, obs) \/ ReleaseCleanupFail(p, obs) \/ ReleaseFinal(p, obs)

\* ------------------------------------------------ janitor.py: the sweep
JanOutput(kind, code) == [NoOutput EXCEPT !.proc = Janitor, !.kind = kind, !.exit = code]

\* the FAILED scan and `now`; a scan error ends the sweep with exit 1
SweepScan(obs) ==
    /\ jan.pc = "idle"
    /\ \E ok \in BOOLEAN :
         IF ~ok THEN jan' = jan /\ Emit(obs, JanOutput("scan_error", 1))
         ELSE IF ScanIds(table, "FAILED") = {} THEN jan' = jan /\ Emit(obs, JanOutput("sweep_done", 0))
         ELSE /\ \E order \in Orders(ScanIds(table, "FAILED")) :
                   jan' = [pc |-> "loop", k |-> 0, now |-> clock,
                           failed |-> [n \in 1..Len(order) |-> [id |-> order[n], ts |-> table[order[n]].ts]]]
              /\ last' = last
    /\ rel' = [rel EXCEPT ![Janitor] = RelInit]
    /\ UNCHANGED <<table, clock, acq, wins, holders, nAcq, nRel, ticks>>

\* one run of janitor.py, out of the bounded number of runs
JanitorScan(obs) ==
    /\ nSweep < MaxSweeps
    /\ nSweep' = nSweep + 1
    /\ SweepScan(obs)

\* one iteration of `for account in failed_accounts`, up to the update of the
\* release_account it calls for an eligible item.  The sys.exit(1) of a
\* release_account called before raised SystemExit, which no
\* `except Exception` of the janitor catches: the sweep ends there
JanitorNext(obs) ==
    /\ jan.pc = "loop"
    /\ rel[Janitor].pc = "idle"
    /\ IF rel[Janitor].exit # 0
       THEN /\ jan' = JanInit
            /\ Emit(obs, JanOutput("sweep_aborted", 1))
            /\ rel' = [rel EXCEPT ![Janitor] = RelInit]
       ELSE IF jan.k >= Len(jan.failed)
       THEN /\ jan' = JanInit
            /\ Emit(obs, JanOutput("sweep_done", 0))
            /\ UNCHANGED rel
       ELSE LET item == jan.failed[jan.k + 1] IN
            IF Eligible(item.ts, jan.now)
            THEN /\ jan' = [jan EXCEPT !.k = @ + 1]
                 /\ RelBegin(Janitor, item.id, "AVAILABLE", obs)
            ELSE /\ jan' = [jan EXCEPT !.k = @ + 1]
                 /\ UNCHANGED <<rel, last>>
    /\ UNCHANGED <<table, clock, acq, wins, holders, nAcq, nRel, nSweep, ticks>>

JanitorStep(obs) == JanitorScan(obs) \/ JanitorNext(obs)

\* ------------------------------------------------------------------- time
\* wall-clock time passes between the steps of the processes
Tick ==
    /\ ticks < MaxTicks
    /\ ticks' = ticks + 1
    /\ clock' = clock + FAILED_AGE_SECONDS
    /\ UNCHANGED <<table, acq, rel, jan, last, wins, holders, nAcq, nRel, nSweep>>

Next ==
    \/ \E a \in Acquirers : AcquirerStep(a, FALSE)
    \/ \E p \in Releasers : ReleaseStart(p, FALSE)
    \/ \E p \in RelProcs : ReleaseStep(p, FALSE)
    \/ JanitorStep(FALSE)
    \/ Tick

Spec == Init /\ [][Next]_vars

\* ---------------------------------------------- one acquirer on its own
\* lease_account runs alone, one run after the other, on an empty table or
\* on a pool of two AVAILABLE accounts; its outputs are observed
InitAcquire == table \in {PoolOf({}), PoolOf(Accounts)} /\ InitProcs

NextAcquire == AcquirerStep("a1", TRUE) \/ Tick

SpecAcquire == InitAcquire /\ [][NextAcquire]_vars

\* the steps of a run that has started: the process keeps executing, its
\* external calls return and its sleeps end
RunStep(a, obs) ==
    \/ LeaseScan(a, obs) \/ LeaseTimeout(a, obs) \/ LeaseForEnd(a, obs)
    \/ LeaseClaim(a, obs) \/ LeaseWork(a, obs) \/ LeaseDirty(a, obs)

SpecAcquireLive == SpecAcquire /\ WF_vars(RunStep("a1", TRUE))

\* ---------------------------------------------- one releaser on its own
\* the shapes a record of the table can have: AVAILABLE, leased at time 0,
\* FAILED with the timestamp kept, lost or corrupted, DIRTY with the
\* timestamp removed (release_account) or left (lease_account)
RecordShapes == {Item("AVAILABLE", NoTs), Item("IN_USE", 0), Item("FAILED", 0), Item("FAILED", NoTs),
                 Item("FAILED", BadTs), Item("DIRTY", NoTs), Item("DIRTY", 0)}

\* release_account runs alone, one call after the other, on a pool of two
\* accounts in any of these shapes; its outputs are observed
InitRelease == table \in [Accounts -> RecordShapes] /\ InitProcs

NextRelease == ReleaseStart("r1", TRUE) \/ ReleaseStep("r1", TRUE)

SpecRelease == InitRelease /\ [][NextRelease]_vars

\* ---------------------------------------------- the janitor on its own
\* the records a sweep can meet: FAILED since time 0 or time 1, FAILED with
\* the timestamp lost or corrupted, and records that are not FAILED
SweepShapes == {Item("AVAILABLE", NoTs), Item("IN_USE", 0), Item("FAILED", 0), Item("FAILED", 1),
                Item("FAILED", NoTs), Item("FAILED", BadTs)}

\* cleanup_failed_accounts runs alone at time 1 or three hours later, so that
\* a FAILED record is two seconds short of, exactly at, or past the threshold
InitSweep ==
    /\ table \in [Accounts -> SweepShapes]
    /\ clock = 1
    /\ acq = [a \in Acquirers |-> AcqInit]
    /\ rel = [p \in RelProcs |-> RelInit]
    /\ jan = JanInit
    /\ last = NoOutput
    /\ wins = [x \in Accounts |-> 0]
    /\ holders = [x \in Accounts |-> 0]
    /\ nAcq = 0 /\ nRel = 0 /\ nSweep = 0 /\ ticks = 0

\* the calls of the sweep are release_account(id, status='AVAILABLE'): the
\* branch for the target FAILED is not part of it
NextSweep ==
    \/ JanitorStep(TRUE)
    \/ ReleaseNukeFail(Janitor, TRUE) \/ ReleaseCleanupFail(Janitor, TRUE) \/ ReleaseFinal(Janitor, TRUE)
    \/ Tick

SpecSweep == InitSweep /\ [][NextSweep]_vars

\* ------------------------------------------ the sweep, run again and again
\* janitor.py is started on a schedule, without end
JanitorScanAgain == SweepScan(TRUE) /\ UNCHANGED nSweep

JanitorRelease ==
    ReleaseNukeFail(Janitor, TRUE) \/ ReleaseCleanupFail(Janitor, TRUE) \/ ReleaseFinal(Janitor, TRUE)

NextSweepLive == JanitorScanAgain \/ JanitorNext(TRUE) \/ JanitorRelease \/ Tick

\* the table calls of the sweep that were answered: the scan, the get_item of
\* release_account, its DIRTY updates, its final update
ScanAnswered == JanitorScanAgain /\ (jan'.pc = "loop" \/ last'.kind = "sweep_done")

GetAnswered ==
    /\ JanitorNext(TRUE)
    /\ rel[Janitor].exit = 0 /\ jan'.k = jan.k + 1 /\ rel' # rel
    /\ ~(rel'[Janitor].pc = "idle" /\ last'.kind = "store_error")

NukeFailAnswered == ReleaseNukeFail(Janitor, TRUE) /\ rel'[Janitor].pc = "idle"

CleanupFailAnswered == ReleaseCleanupFail(Janitor, TRUE) /\ last'.kind = "cleanup_failed"

FinalAnswered == ReleaseFinal(Janitor, TRUE) /\ last'.kind = "ok"

\* the scheduler keeps starting sweeps, a started sweep runs on, time passes,
\* and the table does not fail the same call forever
SweepFairness ==
    /\ WF_vars(JanitorScanAgain \/ JanitorNext(TRUE) \/ JanitorRelease)
    /\ WF_vars(Tick)
    /\ SF_vars(ScanAnswered) /\ SF_vars(GetAnswered)
    /\ SF_vars(NukeFailAnswered) /\ SF_vars(CleanupFailAnswered) /\ SF_vars(FinalAnswered)

SpecSweepLive == InitSweep /\ [][NextSweepLive]_vars /\ SweepFairness

\* ------------------------------------- one acquirer and one releaser
\* lease_account and release_account are run on a pool of one account, in
\* any order and overlapping; their outputs are observed
NextLifecycle == AcquirerStep("a1", TRUE) \/ ReleaseStart("r1", TRUE) \/ ReleaseStep("r1", TRUE)

SpecLifecycle == Init /\ [][NextLifecycle]_vars

\* --------------------- an acquirer, a releaser and the janitor together
\* the three scripts run on a pool of one account, in any order and
\* overlapping, release_account also on ids the pool does not hold; their
\* outputs are observed
NextPool ==
    \/ AcquirerStep("a1", TRUE)
    \/ ReleaseStart("r1", TRUE)
    \/ \E p \in RelProcs : ReleaseStep(p, TRUE)
    \/ JanitorStep(TRUE)
    \/ Tick

SpecPool == Init /\ [][NextPool]_vars

\* ------------------------------- the janitor and a releaser together
\* a sweep and manual calls of release_account overlap on the records a
\* sweep can meet; their outputs are observed
NextOverlap ==
    \/ JanitorStep(TRUE)
    \/ ReleaseStart("r1", TRUE)
    \/ \E p \in RelProcs : ReleaseStep(p, TRUE)
    \/ Tick

\* the records are leased or FAILED, with the timestamp or without
InitOverlap ==
    /\ InitSweep
    /\ table \in [Accounts -> {Item("IN_USE", 0), Item("FAILED", 0), Item("FAILED", NoTs)}]

SpecOverlap == InitOverlap /\ [][NextOverlap]_vars

\* ------------------------------------------- two acquirers in a race
\* two lease_account processes run at once on a pool of two AVAILABLE
\* accounts; what each has done is observed
InitContend == table = PoolOf(Accounts) /\ InitProcs

NextContend == \E a \in Acquirers : AcquirerStep(a, TRUE)

SpecContend == InitContend /\ [][NextContend]_vars

\* ===================================================================
\* Properties

TypeOK ==
    /\ \A x \in DOMAIN table : table[x].status \in {"AVAILABLE", "IN_USE", "FAILED", "DIRTY"}
    /\ clock \in Nat

\* the status of a record, as the formulas below read it
StatusOf(x) == table[x].status

\* ------------------------------------------------------------------- C1
\* wins[x] counts the claims that succeeded on x since x was last written
\* AVAILABLE: a record is claimed at most once per time it is AVAILABLE
C1_ClaimedOnce == \A x \in Accounts : wins[x] <= 1

\* an acquirer whose candidate is no longer AVAILABLE writes nothing and does
\* not go on to the credentials and cloud-nuke for it
C1_LoserBacksOff ==
    \A a \in Acquirers :
      (/\ acq[a].pc = "for"
       /\ acq'[a] # acq[a]
       /\ acq[a].i < Len(acq[a].scan)
       /\ StatusOf(acq[a].scan[acq[a].i + 1]) # "AVAILABLE")
      => (table' = table /\ acq'[a].pc # "work" /\ acq'[a].acct = acq[a].acct)

\* C1: of the acquirers that race for one AVAILABLE record at most one claims
\* it; every other one meets the failed condition and leaves the record alone
C1_ClaimMutualExclusion == []C1_ClaimedOnce /\ [][C1_LoserBacksOff]_vars

\* two acquirers scanned A while it was AVAILABLE; one holds the claim, the
\* other has tried and lost
C1_Witness ==
    \E a, b \in Acquirers :
      /\ a # b
      /\ acq[a].pc = "work" /\ acq[a].acct = "A"
      /\ acq[b].pc = "for" /\ acq[b].scan = <<"A">> /\ acq[b].i = 1
      /\ wins["A"] = 1

\* ------------------------------------------------------------------- C2
\* C2: holders[x] counts the acquires that returned success for x and were
\* not ended by a release that started after them and wrote AVAILABLE: at
\* most one lease holder per account
C2_LeaseExclusive == \A x \in Accounts : holders[x] <= 1

\* ------------------------------------------------------------------- C3
\* C3: every write of a status is conditioned on the status its writer read:
\* the releaser (and the janitor through it) read `current`, the acquirer
\* that marks DIRTY holds the record as IN_USE
C3_NoLostUpdate ==
    [][/\ \A p \in RelProcs :
            (rel[p].pc \in {"markfailed", "nukefail", "cleanupfail", "final"} /\ rel'[p].pc = "idle" /\ table' # table)
            => StatusOf(rel[p].acct) = rel[p].current
       /\ \A a \in Acquirers :
            (acq[a].pc = "dirty" /\ acq'[a].pc = "for" /\ table' # table)
            => StatusOf(acq[a].acct) = "IN_USE"]_vars

\* ------------------------------------------------------------------- C4
\* C4: once a record is DIRTY no step changes its status
C4_DirtyIsFinal == [][\A x \in DOMAIN table : StatusOf(x) = "DIRTY" => table'[x].status = "DIRTY"]_vars

\* ------------------------------------------------------------------- C5
\* C5: a record that is AVAILABLE or DIRTY has no lease_timestamp
C5_NoTimestampAtRest == \A x \in DOMAIN table : StatusOf(x) \in {"AVAILABLE", "DIRTY"} => table[x].ts = NoTs

\* ------------------------------------------------------------------- C6
Failures == {"sts14400_err", "sts3600_err", "nuke_failed", "teardown_err", "provision_err"}
NoFailure(calls) == \A n \in DOMAIN calls : calls[n] \notin Failures

\* the success document names a record that is IN_USE with the time of its
\* claim, not later than now
C6_PostState ==
    last.kind = "success" =>
      /\ last.exit = 0
      /\ last.acct \in DOMAIN table
      /\ table[last.acct] = Item("IN_USE", last.claimedAt)
      /\ last.claimedAt >= 0 /\ last.claimedAt <= clock

\* a run that claimed a record and whose calls for it all succeeded returned
\* success for that record
C6_Returns ==
    (last.proc \in Acquirers /\ last.claimed # {} /\ NoFailure(last.calls))
    => (last.kind = "success" /\ last.acct \in last.claimed)

\* alone, the candidates still to try are AVAILABLE as scanned
C6_CandidatesStay ==
    \A a \in Acquirers : acq[a].pc = "for" =>
      \A n \in (acq[a].i + 1)..Len(acq[a].scan) : StatusOf(acq[a].scan[n]) = "AVAILABLE"

\* the claim turns an AVAILABLE record into IN_USE stamped with the time
C6_ClaimStamp ==
    \A a \in Acquirers :
      (acq[a].pc = "for" /\ acq'[a].pc = "work")
      => (StatusOf(acq'[a].acct) = "AVAILABLE" /\ table'[acq'[a].acct] = Item("IN_USE", clock))

\* C6: happy path of an acquire that runs alone: success references the
\* claimed record, which is IN_USE with lease_timestamp = claim time <= now
C6_HappyPath == [](C6_PostState /\ C6_Returns /\ C6_CandidatesStay) /\ [][C6_ClaimStamp]_vars

C6_Witness ==
    /\ last.kind = "success" /\ last.claimed = {last.acct} /\ NoFailure(last.calls)
    /\ table[last.acct].status = "IN_USE" /\ table[last.acct].ts < clock

\* ------------------------------------------------------------------- C7
\* at success every record the run claimed before is DIRTY, the returned one
\* is IN_USE and was sanitized
C7_PostState ==
    last.kind = "success" =>
      /\ StatusOf(last.acct) = "IN_USE"
      /\ \E n \in DOMAIN last.calls : last.calls[n] = "nuke_ok"
      /\ \A x \in last.claimed \ {last.acct} : StatusOf(x) = "DIRTY"

\* marking DIRTY takes the record from IN_USE to DIRTY and the run goes on
\* with the rest of the same scan
C7_Continue ==
    \A a \in Acquirers :
      (acq[a].pc = "dirty" /\ acq'[a].pc # "dirty" /\ acq'[a].pc # "idle")
      => /\ StatusOf(acq[a].acct) = "IN_USE" /\ table'[acq[a].acct].status = "DIRTY"
         /\ acq'[a].pc = "for" /\ acq'[a].scan = acq[a].scan /\ acq'[a].i = acq[a].i

\* C7: a sanitizer failure moves the claimed record to DIRTY and the same
\* acquire goes on to the next candidate; success leaves the earlier claimed
\* candidates DIRTY and the returned one IN_USE
C7_FanOut == []C7_PostState /\ [][C7_Continue]_vars

C7_Witness ==
    /\ last.kind = "success" /\ Cardinality(last.claimed) = 2
    /\ \E x \in last.claimed \ {last.acct} : StatusOf(x) = "DIRTY"

\* ------------------------------------------------------------------- C8
\* a run that starts on an empty table ends in that step with exit 1, before
\* any AVAILABLE scan, claim or sleep
C8_StartOnEmpty ==
    \A a \in Acquirers :
      (acq[a].pc = "idle" /\ nAcq' # nAcq /\ DOMAIN table = {})
      => /\ acq'[a].pc = "idle" /\ table' = table /\ clock' = clock
         /\ last'.kind \in {"config", "scan_error"} /\ last'.exit = 1

C8_ConfigError ==
    /\ last.kind = "config" => (DOMAIN table = {} /\ last.exit = 1 /\ ~last.sawAvail /\ last.claimed = {})
    /\ DOMAIN table = {} => \A a \in Acquirers : acq[a].pc = "idle"

\* C8: on an empty table acquire fails at once with the configuration error
\* and exit 1, and never enters the poll loop
C8_EmptyPoolFailsFast == []C8_ConfigError /\ [][C8_StartOnEmpty]_vars

C8_Witness == last.kind = "config" /\ DOMAIN table = {} /\ nAcq > 0

\* ------------------------------------------------------------------- C9
\* the run leaves the poll loop only with the deadline elapsed; it then
\* reports the IN_USE ids (nothing if that scan raised), writes nothing and
\* exits 1
C9_TimeoutStep ==
    \A a \in Acquirers :
      (acq[a].pc = "loop" /\ acq'[a].pc = "idle")
      => /\ clock - acq[a].start >= TIMEOUT_SECONDS
         /\ last'.kind = "timeout" /\ last'.exit = 1 /\ last'.proc = a
         /\ table' = table
         /\ last'.reported \in {{x \in DOMAIN table : StatusOf(x) = "IN_USE"}, {}}

\* a run that has seen no AVAILABLE record writes nothing
C9_NoWrite == \A a \in Acquirers : (~acq[a].sawAvail /\ acq'[a] # acq[a]) => table' = table

\* a run that never saw an AVAILABLE record ends in the timeout, having
\* claimed nothing
C9_Outcome ==
    /\ last.kind \in {"success", "fatal"} => last.sawAvail
    /\ (last.kind = "timeout" /\ ~last.sawAvail) => (last.claimed = {} /\ last.calls = <<>> /\ last.exit = 1)

\* C9: with no record AVAILABLE at any scan before the deadline, acquire ends
\* with Timeout and exit 1, lists the IN_USE ids and changes no record
C9_DeadlineHit == []C9_Outcome /\ [][C9_TimeoutStep /\ C9_NoWrite]_vars

C9_Witness == last.kind = "timeout" /\ ~last.sawAvail /\ last.reported # {} /\ last.exit = 1

\* ------------------------------------------------------------------ C10
\* the update of release(id, FAILED) keeps the lease_timestamp of an IN_USE
\* record and touches no other record
C10_Step ==
    \A p \in Releasers :
      (rel[p].pc = "markfailed" /\ rel'[p].pc = "idle" /\ last'.kind = "ok")
      => /\ StatusOf(rel[p].acct) = "IN_USE" =>
              (table[rel[p].acct].ts # NoTs /\ table'[rel[p].acct] = Item("FAILED", table[rel[p].acct].ts))
         /\ \A x \in DOMAIN table \ {rel[p].acct} : table'[x] = table[x]
         /\ last'.calls = <<>> /\ last'.target = "FAILED" /\ last'.exit = 0

\* a release to FAILED makes no call to STS, cloud-nuke or IAM
C10_NoCalls ==
    /\ \A p \in Releasers : rel[p].target = "FAILED" => (rel[p].calls = <<>> /\ rel[p].pc \in {"idle", "markfailed"})
    /\ last.target = "FAILED" => last.calls = <<>>

\* C10: release(id, FAILED) on an IN_USE record with lease_timestamp T leaves
\* it FAILED with lease_timestamp T and runs no cleanup
C10_FailedKeepsTimestamp == []C10_NoCalls /\ [][C10_Step]_vars

C10_Witness ==
    /\ last.kind = "ok" /\ last.target = "FAILED" /\ last.current = "IN_USE"
    /\ table[last.acct] = Item("FAILED", 0)

\* ------------------------------------------------------------------ C11
\* the step in which release_account(x, ..) is called by p: the call is under
\* way for x, or it has ended in that step with its outcome reported for x
Started(p, x) ==
    /\ nRel' # nRel
    /\ rel'[p].acct = x \/ (rel'[p].pc = "idle" /\ last'.proc = p /\ last'.acct = x)

\* a release called on an AVAILABLE or DIRTY record ends at once with exit 1,
\* the table as it was
C11_Step ==
    \A p \in Releasers : \A x \in Accounts :
      (Started(p, x) /\ StatusOf(x) \in {"AVAILABLE", "DIRTY"})
      => /\ rel'[p].pc = "idle" /\ table' = table
         /\ last'.kind \in {"not_leased", "store_error"} /\ last'.exit = 1 /\ last'.calls = <<>>

\* the "is not leased" error: exit 1 with the error document, the status
\* read was AVAILABLE or DIRTY, and no STS, cloud-nuke or IAM call was made
C11_Outcome ==
    last.kind = "not_leased" =>
      /\ last.exit = 1 /\ last.doc /\ last.calls = <<>>
      /\ last.current \in {"AVAILABLE", "DIRTY"}

\* C11: release on a record that is neither IN_USE nor FAILED fails with the
\* "not leased" error and exit 1, changes nothing and makes no external call
C11_InvalidRelease == []C11_Outcome /\ [][C11_Step]_vars

C11_Witness ==
    /\ last.kind = "not_leased" /\ last.current = "DIRTY" /\ last.target = "AVAILABLE"
    /\ table[last.acct] = Item("DIRTY", 0)

\* ------------------------------------------------------------------ C12
\* a release called with an id that has no record ends in that step
C12_Step ==
    \A p \in Releasers :
      Started(p, UnknownId)
      => /\ rel'[p].pc = "idle" /\ table' = table
         /\ last'.kind \in {"not_found", "store_error"} /\ last'.exit = 1 /\ last'.calls = <<>>

C12_Outcome ==
    /\ UnknownId \notin DOMAIN table
    /\ last.kind = "not_found" =>
         (last.exit = 1 /\ last.doc /\ last.calls = <<>> /\ last.acct \notin DOMAIN table)

\* C12: release of an id without a record fails with the "not found" error
\* and exit 1, creates no record and makes no external call
C12_UnknownAccount == []C12_Outcome /\ [][C12_Step]_vars

C12_Witness == last.kind = "not_found" /\ last.acct = UnknownId /\ DOMAIN table = Accounts

\* ------------------------------------------------------------------ C13
Teardowns == {"teardown_ok", "teardown_absent", "teardown_err"}
Made(calls, S) == \E n \in DOMAIN calls : calls[n] \in S

\* the update after a failed cloud-nuke writes DIRTY without timestamp, or
\* nothing when the store refuses it
C13_Step ==
    \A p \in Releasers :
      (rel[p].pc \in {"nukefail", "cleanupfail"} /\ rel'[p] # rel[p] /\ Made(rel[p].calls, {"nuke_failed"}))
      => /\ table' = table \/ table' = [table EXCEPT ![rel[p].acct] = Item("DIRTY", NoTs)]
         /\ rel'[p].pc \in {"idle", "cleanupfail"}

\* a release whose cloud-nuke failed ends with exit 1 and no teardown; the
\* record is DIRTY without timestamp once the mark is written, otherwise as
\* it was read, and not AVAILABLE
C13_Outcome ==
    (last.proc \in Releasers /\ Made(last.calls, {"nuke_failed"}))
    => /\ last.exit = 1 /\ last.target = "AVAILABLE"
       /\ ~Made(last.calls, Teardowns)
       /\ last.kind \in {"nuke_failed", "cleanup_failed", "store_error"}
       /\ last.kind = "nuke_failed" => last.doc
       /\ last.kind \in {"nuke_failed", "cleanup_failed"} => table[last.acct] = Item("DIRTY", NoTs)
       /\ last.kind = "store_error" => StatusOf(last.acct) = last.current
       /\ StatusOf(last.acct) # "AVAILABLE"

\* C13: a release to AVAILABLE whose cloud-nuke fails leaves the record DIRTY
\* with the timestamp removed, reports the error with exit 1, skips the user
\* teardown and never writes AVAILABLE
C13_ReleaseNukeFailure == []C13_Outcome /\ [][C13_Step]_vars

C13_Witness ==
    /\ last.kind = "nuke_failed" /\ last.current = "IN_USE" /\ last.exit = 1
    /\ table[last.acct] = Item("DIRTY", NoTs)

\* ------------------------------------------------------------------ C14
CleanRelease == {<<"sts3600_ok", "nuke_ok", "teardown_ok">>, <<"sts3600_ok", "nuke_ok", "teardown_absent">>}

\* while the release stands before its final update the cloud-nuke and the
\* teardown are done, in this order, and the record is still as it was read
C14_Order ==
    \A p \in Releasers : rel[p].pc = "final" =>
      /\ rel[p].calls \in CleanRelease
      /\ rel[p].current \in {"IN_USE", "FAILED"} /\ StatusOf(rel[p].acct) = rel[p].current

\* the final update writes AVAILABLE and removes the timestamp
C14_Step ==
    \A p \in Releasers :
      (rel[p].pc = "final" /\ rel[p].target = "AVAILABLE" /\ rel'[p].pc = "idle" /\ last'.kind = "ok")
      => table' = [table EXCEPT ![rel[p].acct] = Item("AVAILABLE", NoTs)]

\* a release to AVAILABLE whose calls all succeeded ended well, the record
\* AVAILABLE without timestamp (the store refusing the update apart)
C14_Outcome ==
    /\ (last.proc \in Releasers /\ last.target = "AVAILABLE" /\ last.calls \in CleanRelease)
       => last.kind \in {"ok", "store_error"}
    /\ (last.proc \in Releasers /\ last.target = "AVAILABLE" /\ last.kind = "ok")
       => (last.exit = 0 /\ last.calls \in CleanRelease /\ table[last.acct] = Item("AVAILABLE", NoTs))

\* C14: a release to AVAILABLE of an IN_USE or FAILED record, all calls
\* succeeding, ends with the record AVAILABLE and no timestamp; cloud-nuke
\* comes first, then the teardown, then the update
C14_ReleaseSuccess == [](C14_Order /\ C14_Outcome) /\ [][C14_Step]_vars

C14_Witness ==
    /\ last.kind = "ok" /\ last.target = "AVAILABLE" /\ last.current = "IN_USE"
    /\ last.calls = <<"sts3600_ok", "nuke_ok", "teardown_ok">>
    /\ table[last.acct] = Item("AVAILABLE", NoTs)

\* ------------------------------------------------------------------ C15
\* C15: a release that exits nonzero has printed the error document
C15_FailureHasDocument == (last.proc \in Releasers /\ last.exit # 0) => last.doc

\* ------------------------------------------------------------------ C16
\* the step of the sweep that handles the next item of its scan
Visits(it) ==
    /\ jan.pc = "loop" /\ jan'.pc = "loop" /\ jan'.k = jan.k + 1
    /\ it = jan.failed[jan.k + 1]

\* release_account was called for the item in this step
Reclaims(it) ==
    \/ rel'[Janitor].pc # "idle" /\ rel'[Janitor].acct = it.id /\ rel'[Janitor].target = "AVAILABLE"
    \/ rel'[Janitor].pc = "idle" /\ rel'[Janitor].exit = 1 /\ last'.proc = Janitor /\ last'.acct = it.id

\* the item is passed over: no call, no write
Skips(it) == UNCHANGED <<table, rel, last>>

\* the sweep ends having handled every item of its scan
SweepDone == jan.pc = "loop" /\ jan'.pc = "idle" /\ last'.kind = "sweep_done"

\* an item with a parseable timestamp is reclaimed exactly when it is older
\* than three hours at the `now` of the sweep
C16_Step ==
    \A it \in {jan.failed[n] : n \in DOMAIN jan.failed} :
      (Visits(it) /\ it.ts >= 0)
      => IF jan.now - it.ts > FAILED_AGE_SECONDS THEN Reclaims(it) ELSE Skips(it)

\* at the end of a sweep the older records are AVAILABLE, the others FAILED
\* with the timestamp they had
C16_Done ==
    SweepDone =>
      \A n \in DOMAIN jan.failed :
        LET it == jan.failed[n] IN
        it.ts >= 0 =>
          IF jan.now - it.ts > FAILED_AGE_SECONDS
          THEN table[it.id] = Item("AVAILABLE", NoTs)
          ELSE table[it.id] = Item("FAILED", it.ts)

\* C16: the sweep releases a FAILED record with a parseable timestamp to
\* AVAILABLE if and only if its age is more than three hours; a record of
\* three hours or less stays FAILED with its timestamp and is not cleaned
C16_AgeThreshold == [][C16_Step /\ C16_Done]_vars

\* A (FAILED since 0) was released at now = 10801, B (FAILED since 1, three
\* hours old to the second) was passed over
C16_Witness ==
    /\ jan.pc = "loop" /\ jan.k = 2 /\ Len(jan.failed) = 2 /\ rel[Janitor].pc = "idle"
    /\ jan.now - 1 = FAILED_AGE_SECONDS
    /\ \E n, m \in {1, 2} :
         /\ jan.failed[n].ts = 0 /\ table[jan.failed[n].id] = Item("AVAILABLE", NoTs)
         /\ jan.failed[m].ts = 1 /\ table[jan.failed[m].id] = Item("FAILED", 1)

\* ------------------------------------------------------------------ C17
\* an item without timestamp, or with one that does not parse, is reclaimed
\* whatever the time
C17_Step ==
    \A it \in {jan.failed[n] : n \in DOMAIN jan.failed} :
      (Visits(it) /\ it.ts \in {NoTs, BadTs}) => (Reclaims(it) /\ table' = table)

\* the release the sweep called ends with the record AVAILABLE
C17_Released ==
    (rel[Janitor].pc = "final" /\ rel'[Janitor].pc = "idle" /\ last'.kind = "ok")
    => (rel[Janitor].target = "AVAILABLE" /\ table' = [table EXCEPT ![rel[Janitor].acct] = Item("AVAILABLE", NoTs)])

C17_Done ==
    SweepDone =>
      \A n \in DOMAIN jan.failed :
        jan.failed[n].ts \in {NoTs, BadTs} => table[jan.failed[n].id] = Item("AVAILABLE", NoTs)

\* C17: a FAILED record whose lease_timestamp is absent or unparsable is
\* reclaimed by the sweep at once, whatever its age, and ends AVAILABLE when
\* the cleanup succeeds
C17_CorruptMetadata == [][C17_Step /\ C17_Released /\ C17_Done]_vars

\* at time 1 the sweep has released the record with the unparsable timestamp
C17_Witness ==
    /\ jan.pc = "loop" /\ jan.k >= 1 /\ jan.now = 1 /\ rel[Janitor].pc = "idle"
    /\ jan.failed[jan.k].ts = BadTs
    /\ last.proc = Janitor /\ last.kind = "ok" /\ last.acct = jan.failed[jan.k].id
    /\ table[last.acct] = Item("AVAILABLE", NoTs)

\* ------------------------------------------------------------------ C18
\* C18: a sweep ends only after it has handled every item of its scan
C18_SweepVisitsAll == [][(jan.pc = "loop" /\ jan'.pc = "idle") => jan.k = Len(jan.failed)]_vars

\* ------------------------------------------------------------------ C19
LongRequests == {"sts14400_ok", "sts14400_validation", "sts14400_err"}
ShortRequests == {"sts3600_ok", "sts3600_err"}
IsAssume(c) == c \in LongRequests \cup ShortRequests

\* the credential requests among the calls made for one claimed candidate:
\* the first call after the claim asks for 14400 s; a second request is made
\* only after a validation rejection, asks for 3600 s, and is the last one
AssumeShape(calls) ==
    LET s == SelectSeq(calls, IsAssume) IN
    /\ Len(s) <= 2
    /\ Len(calls) >= 2 => (calls[1] = "claim" /\ calls[2] \in LongRequests /\ s[1] = calls[2])
    /\ Len(s) = 2 => (s[1] = "sts14400_validation" /\ s[2] \in ShortRequests /\ calls[3] = s[2])
    /\ (Len(s) >= 1 /\ s[1] = "sts14400_validation") => Len(s) = 2

C19_Requests ==
    /\ \A a \in Acquirers : AssumeShape(acq[a].calls)
    /\ last.proc \in Acquirers => AssumeShape(last.calls)

\* a failed request that is not retried, or a failed retry, ends the run
\* there with exit 1; every other ended run got its credentials
C19_Fatal ==
    /\ \A a \in Acquirers : ~Made(acq[a].calls, {"sts14400_err", "sts3600_err"})
    /\ (last.proc \in Acquirers /\ Made(last.calls, {"sts14400_err", "sts3600_err"}))
       => /\ last.kind = "fatal" /\ last.exit = 1
          /\ last.calls[Len(last.calls)] \in {"sts14400_err", "sts3600_err"}
    /\ (last.proc \in Acquirers /\ Made(last.calls, {"nuke_ok", "nuke_failed"}))
       => Made(last.calls, {"sts14400_ok", "sts3600_ok"})

\* C19: after the claim the acquirer asks for credentials of 14400 s; only a
\* validation rejection is retried, once, with 3600 s; any other failure and
\* a failure of the retry are fatal; at most two requests per candidate
C19_DurationFallback == [](C19_Requests /\ C19_Fatal)

C19_Witness ==
    /\ last.kind = "success" /\ Len(last.calls) >= 3
    /\ last.calls[2] = "sts14400_validation" /\ last.calls[3] = "sts3600_ok"

\* ------------------------------------------------------------------ C20
\* in acquire a missing sandbox-temporary-user is followed by the creation
\* of the user and its key, and the run succeeds when that creation does
C20_Acquire ==
    (last.proc \in Acquirers /\ Made(last.calls, {"teardown_absent"}))
    => LET n == Len(last.calls) IN
       /\ last.calls[n - 1] = "teardown_absent"
       /\ last.calls[n] \in {"provision_ok", "provision_err"}
       /\ last.calls[n] = "provision_ok" <=> (last.kind = "success" /\ last.exit = 0)

\* in release a missing user leaves the call before its final update, and no
\* such release ends as a failed cleanup
C20_Release ==
    /\ \A p \in Releasers :
         Made(rel[p].calls, {"teardown_absent"}) => (rel[p].pc = "final" /\ rel[p].target = "AVAILABLE")
    /\ (last.proc \in Releasers /\ Made(last.calls, {"teardown_absent"}))
       => last.kind \in {"ok", "store_error"}

\* the final update of such a release leaves the record AVAILABLE
C20_Final ==
    \A p \in Releasers :
      (rel[p].pc = "final" /\ Made(rel[p].calls, {"teardown_absent"}) /\ rel'[p].pc = "idle" /\ last'.kind = "ok")
      => (last'.exit = 0 /\ table'[rel[p].acct].status = "AVAILABLE")

\* C20: a missing ephemeral user is no error in either operation: release
\* still ends with the record AVAILABLE, acquire still creates the new user
\* and returns success
C20_IdempotentTeardown == [](C20_Acquire /\ C20_Release) /\ [][C20_Final]_vars

\* an acquire has returned success and a release stands before its final
\* update, each having found no user to delete
C20_Witness ==
    /\ last.kind = "success" /\ Made(last.calls, {"teardown_absent"})
    /\ \E p \in Releasers : rel[p].pc = "final" /\ Made(rel[p].calls, {"teardown_absent"})

\* ------------------------------------------------------------------ C21
\* C21: of the releases that overlap on one FAILED record only one changes
\* the record: the update of a release that read FAILED writes nothing once
\* the record is no longer FAILED
C21_OneStateChange ==
    [][\A p \in RelProcs :
         (/\ rel[p].current = "FAILED"
          /\ rel[p].pc \in {"nukefail", "cleanupfail", "final"} /\ rel'[p].pc = "idle"
          /\ StatusOf(rel[p].acct) # "FAILED")
         => table' = table]_vars

\* ------------------------------------------------------------------ C22
BrokenCleanup == {"sts3600_err", "teardown_err"}

\* the handler of a failed cleanup writes DIRTY without timestamp, or nothing
\* when the store refuses the update, and the call ends
C22_Step ==
    \A p \in Releasers :
      (rel[p].pc = "cleanupfail" /\ rel'[p] # rel[p])
      => /\ rel'[p].pc = "idle" /\ last'.exit = 1
         /\ table' = table \/ table' = [table EXCEPT ![rel[p].acct] = Item("DIRTY", NoTs)]

\* a release whose assume_role or user teardown raised ends with exit 1, the
\* record DIRTY without timestamp once the mark is written and never
\* AVAILABLE; no such release stands before the final update
C22_Outcome ==
    /\ \A p \in Releasers : Made(rel[p].calls, BrokenCleanup) => rel[p].pc = "cleanupfail"
    /\ (last.proc \in Releasers /\ Made(last.calls, BrokenCleanup))
       => /\ last.exit = 1 /\ last.kind \in {"cleanup_failed", "store_error"}
          /\ last.kind = "cleanup_failed" => table[last.acct] = Item("DIRTY", NoTs)
          /\ StatusOf(last.acct) # "AVAILABLE"

PostClaimFailures == {"sts14400_err", "sts3600_err", "teardown_err", "provision_err"}

\* the step after the claim that does not go on to mark DIRTY ends the run
\* with the table as it is: no further candidate, no sleep, no poll cycle
C23_Step ==
    \A a \in Acquirers :
      (acq[a].pc = "work" /\ acq'[a].pc # "work" /\ acq'[a].pc # "dirty")
      => /\ acq'[a] = AcqInit /\ table' = table /\ clock' = clock
         /\ last'.proc = a /\ last'.kind \in {"success", "fatal"}
         /\ last'.kind = "fatal" =>
              (last'.exit = 1 /\ last'.calls[Len(last'.calls)] \in PostClaimFailures)

\* a run in which one of these calls failed has ended, fatally, with the
\* claimed record IN_USE and its timestamp
C23_Outcome ==
    /\ \A a \in Acquirers : ~Made(acq[a].calls, PostClaimFailures)
    /\ (last.proc \in Acquirers /\ Made(last.calls, PostClaimFailures))
       => /\ last.kind = "fatal" /\ last.exit = 1
          /\ table[last.acct] = Item("IN_USE", last.claimedAt) /\ last.claimedAt # NoTs

\* C23: a failure of the credential request (validation rejection apart), of
\* the user teardown or of the provisioning after a claim ends the acquire
\* with exit 1, without another candidate or poll cycle, the claimed record
\* left IN_USE with its timestamp
C23_FatalAfterClaim == []C23_Outcome /\ [][C23_Step]_vars

\* the run ended on A's provisioning failure although B was AVAILABLE
C23_Witness ==
    /\ last.kind = "fatal" /\ last.calls[Len(last.calls)] = "provision_err"
    /\ last.claimed = {last.acct} /\ table[last.acct] = Item("IN_USE", last.claimedAt)
    /\ \E x \in DOMAIN table : StatusOf(x) = "AVAILABLE"
    /\ \A a \in Acquirers : acq[a].pc = "idle"

\* ------------------------------------------------------------------ C24
\* the acquirer stands before the claim of a candidate that is gone or no
\* longer AVAILABLE, the deadline open
MeetsConflict(a) ==
    /\ acq[a].pc = "for" /\ acq[a].i < Len(acq[a].scan)
    /\ clock - acq[a].start < TIMEOUT_SECONDS
    /\ LET x == acq[a].scan[acq[a].i + 1] IN
       IF x \in DOMAIN table THEN StatusOf(x) # "AVAILABLE" ELSE TRUE

\* its step writes nothing and calls nothing for the candidate; the run goes
\* on with the next candidate of the scan (or, the store failing altogether,
\* with the next poll cycle)
C24_Step ==
    \A a \in Acquirers :
      (MeetsConflict(a) /\ acq'[a] # acq[a])
      => /\ table' = table
         /\ acq'[a].calls = acq[a].calls /\ acq'[a].claimed = acq[a].claimed /\ acq'[a].acct = acq[a].acct
         /\ \/ /\ acq'[a].pc = "for" /\ acq'[a].scan = acq[a].scan /\ acq'[a].i = acq[a].i + 1
               /\ clock' = clock
            \/ acq'[a].pc = "loop"

\* only the candidates a run claimed are worked on
C24_NoWorkWithoutClaim ==
    \A a \in Acquirers : acq[a].pc \in {"work", "dirty"} =>
      (acq[a].acct \in acq[a].claimed /\ acq[a].calls[1] = "claim")

\* C24: a claim rejected because the record is no longer AVAILABLE writes
\* nothing, makes no STS or cloud-nuke call for the record, and the acquirer
\* goes on to the next candidate of the same scan
C24_ConflictHandling == []C24_NoWorkWithoutClaim /\ [][C24_Step]_vars

\* one acquirer holds A; the other scanned <<A, B>>, never claimed A and now
\* holds B
C24_Witness ==
    \E a, b \in Acquirers :
      /\ a # b
      /\ acq[a].pc = "work" /\ acq[a].acct = "A"
      /\ acq[b].pc = "work" /\ acq[b].acct = "B" /\ acq[b].scan = <<"A", "B">> /\ acq[b].claimed = {"B"}

\* ------------------------------------------------------------------ C25
\* C25: a store failure inside the poll loop never ends the run: a run that
\* ended fatally ended on a failed STS, teardown or provisioning call
C25_StoreFailureNotFatal ==
    (last.proc \in Acquirers /\ last.kind = "fatal")
    => last.calls[Len(last.calls)] \in PostClaimFailures

\* ------------------------------------------------------------------ C26
\* the deadline of the run has elapsed
Elapsed(a) == clock - acq[a].start >= TIMEOUT_SECONDS

\* a scan is issued, and a claim is issued, only with the deadline open
C26_Issue ==
    \A a \in Acquirers :
      /\ (acq[a].pc = "loop" /\ acq'[a].pc = "for") => ~Elapsed(a)
      /\ (acq[a].pc = "loop" /\ acq'[a].pc = "loop" /\ clock' = Slept(clock)) => ~Elapsed(a)
      /\ (acq[a].pc = "for" /\ (acq'[a].pc = "work" \/ acq'[a].i = acq[a].i + 1 \/ table' # table)
            /\ acq[a].i < Len(acq[a].scan)) => ~Elapsed(a)

\* with the deadline elapsed the rest of the scan is given up: nothing is
\* claimed, the run goes to the while condition
C26_Abandon ==
    \A a \in Acquirers :
      (acq[a].pc = "for" /\ Elapsed(a) /\ acq'[a] # acq[a])
      => /\ table' = table /\ acq'[a].pc = "loop"
         /\ acq'[a].claimed = acq[a].claimed /\ acq'[a].calls = acq[a].calls

\* C26: the deadline is checked before each scan and before each claim; no
\* claim is issued once it has elapsed and the candidates left in the scan
\* are abandoned unclaimed
C26_DeadlineEnforced == [][C26_Issue /\ C26_Abandon]_vars

\* the run marked its first candidate DIRTY and stands before the second
\* with the deadline elapsed
C26_Witness ==
    \E a \in Acquirers :
      /\ acq[a].pc = "for" /\ acq[a].i = 1 /\ Len(acq[a].scan) = 2 /\ Elapsed(a)
      /\ acq[a].claimed = {acq[a].scan[1]}
      /\ StatusOf(acq[a].scan[1]) = "DIRTY" /\ StatusOf(acq[a].scan[2]) = "AVAILABLE"

\* ------------------------------------------------------------------ C27
Endings == {"success", "timeout", "config", "scan_error", "fatal"}

\* a run ends in one step, which reports one outcome: the success document
\* with exit 0, or exit 1 for the timeout, the empty pool, the failed
\* initial scan and the fatal error
C27_OneEnding ==
    \A a \in Acquirers :
      LET ends == acq[a].pc # "idle" /\ acq'[a].pc = "idle"
          refused == acq[a].pc = "idle" /\ nAcq' # nAcq /\ acq'[a].pc = "idle" /\ last'.proc = a IN
      (ends \/ refused)
      => /\ last'.proc = a /\ last'.kind \in Endings
         /\ last'.kind = "success" <=> last'.exit = 0
         /\ last'.kind # "success" => last'.exit = 1
         /\ refused => last'.kind \in {"config", "scan_error"}
         /\ acq'[a] = AcqInit

\* every run that has started ends
C27_Ends == \A a \in Acquirers : (acq[a].pc # "idle") ~> (acq[a].pc = "idle")

\* C27: with a finite deadline, sleeps that advance the clock and calls that
\* return, every acquire run ends, in exactly one of success, timeout,
\* configuration error or fatal error
C27_Terminates == C27_Ends /\ [][C27_OneEnding]_vars

\* a run has ended in the timeout through its sleeps alone
C27_Witness == last.kind = "timeout" /\ ticks = 0 /\ clock >= TIMEOUT_SECONDS /\ acq[last.proc].pc = "idle"

\* ------------------------------------------------------------------ C28
\* between two poll cycles the run works on no account, and every record it
\* claimed is DIRTY
C28_Released ==
    \A a \in Acquirers : acq[a].pc = "loop" =>
      /\ acq[a].acct = NoAcct
      /\ \A x \in acq[a].claimed : StatusOf(x) = "DIRTY"

\* the step that ends in the sleep writes nothing
C28_Sleep ==
    \A a \in Acquirers :
      (acq[a].pc \in {"loop", "for"} /\ acq'[a].pc = "loop" /\ clock' = Slept(clock)) => table' = table

\* C28: an acquirer asleep between two poll cycles holds no lease: every
\* record it claimed in the run has been marked DIRTY
C28_SleepHoldsNoLease == []C28_Released /\ [][C28_Sleep]_vars

\* the run has slept after marking both accounts DIRTY
C28_Witness ==
    \E a \in Acquirers :
      /\ acq[a].pc = "loop" /\ clock > acq[a].start
      /\ acq[a].claimed = Accounts /\ \A x \in Accounts : StatusOf(x) = "DIRTY"

\* ------------------------------------------------------------------ C29
\* a release that stands before its final update has seen its own cloud-nuke
\* succeed
C29_Sanitized ==
    \A p \in RelProcs : rel[p].pc = "final" =>
      (Made(rel[p].calls, {"nuke_ok"}) /\ ~Made(rel[p].calls, {"nuke_failed"}))

\* a record becomes AVAILABLE only by the final update of such a release
C29_Step ==
    \A x \in DOMAIN table :
      (table'[x] # table[x] /\ table'[x].status = "AVAILABLE")
      => \E p \in RelProcs :
           /\ rel[p].pc = "final" /\ rel[p].acct = x /\ rel'[p].pc = "idle"
           /\ Made(rel[p].calls, {"nuke_ok"})

\* C29: release_account, called by hand or by the janitor (also for a FAILED
\* record without usable timestamp), writes AVAILABLE only after cloud-nuke
\* succeeded for the account in the same call
C29_SanitizeBeforeAvailable == []C29_Sanitized /\ [][C29_Step]_vars

\* the sweep has released a record that had no timestamp, after its cloud-nuke
C29_Witness ==
    /\ jan.pc = "loop" /\ jan.k >= 1 /\ jan.failed[jan.k].ts = NoTs
    /\ last.proc = Janitor /\ last.kind = "ok" /\ last.acct = jan.failed[jan.k].id
    /\ Made(last.calls, {"nuke_ok"}) /\ table[last.acct] = Item("AVAILABLE", NoTs)

\* ------------------------------------------------------------------ C30
\* the sequences of calls a successful run makes on the account it returns
SuccessOrder ==
    {<<"claim">> \o sts \o <<"nuke_ok", iam, "provision_ok">> :
       sts \in {<<"sts14400_ok">>, <<"sts14400_validation", "sts3600_ok">>},
       iam \in {"teardown_ok", "teardown_absent"}}

\* the work on an account is done by a run that claimed it
C30_WorkOnClaimed ==
    \A a \in Acquirers : acq[a].pc \in {"work", "dirty"} => acq[a].acct \in acq[a].claimed

\* C30: a run reports success only for an account it claimed, after the
\* claim, the credentials, a successful cloud-nuke, the teardown of the
\* credential user and the provisioning, in this order
C30_AcquireOrdering ==
    /\ C30_WorkOnClaimed
    /\ (last.proc \in Acquirers /\ last.kind = "success")
       => /\ last.calls \in SuccessOrder
          /\ last.acct \in last.claimed
          /\ ~Made(last.calls, {"nuke_failed"})

\* success on the second candidate, with the shorter session, after the
\* cloud-nuke of the first one failed
C30_Witness ==
    /\ last.proc \in Acquirers /\ last.kind = "success" /\ last.exit = 0
    /\ Cardinality(last.claimed) = 2
    /\ last.calls = <<"claim", "sts14400_validation", "sts3600_ok", "nuke_ok", "teardown_ok", "provision_ok">>
    /\ \E x \in last.claimed \ {last.acct} : StatusOf(x) = "DIRTY"

\* ------------------------------------------------------------------ C31
\* C31: the release a sweep makes goes on to sanitize and to write a record
\* only if the status it read for the record was FAILED; a record that left
\* FAILED after the sweep's scan is left alone
C31_JanitorOnlyFailed ==
    rel[Janitor].pc \in {"nukefail", "cleanupfail", "final"} => rel[Janitor].current = "FAILED"

\* ------------------------------------------------------------------ C32
\* C32: from a pool of AVAILABLE records, under every interleaving of
\* acquirers, releasers and sweeps, a record that is FAILED has a
\* lease_timestamp
C32_FailedHasTimestamp ==
    \A x \in DOMAIN table : table[x].status = "FAILED" => table[x].ts # NoTs

\* ------------------------------------------------------------------ C33
\* a record leaves FAILED by the release of the sweep: to AVAILABLE after a
\* clean sanitizer run, to DIRTY after a failed one
C33_Ending ==
    \A x \in DOMAIN table :
      (table[x].status = "FAILED" /\ table'[x].status # "FAILED")
      => /\ rel[Janitor].acct = x
         /\ \/ table'[x] = Item("AVAILABLE", NoTs) /\ rel[Janitor].calls \in CleanRelease
            \/ table'[x] = Item("DIRTY", NoTs) /\ Made(rel[Janitor].calls, Failures)

\* a FAILED record that is past the age threshold (or has no usable
\* timestamp) leaves FAILED
C33_Leaves ==
    \A x \in Accounts :
      (table[x].status = "FAILED" /\ Eligible(table[x].ts, clock)) ~> (table[x].status # "FAILED")

C34_Step ==
    \A p \in Releasers :
      (rel[p].pc = "markfailed" /\ rel'[p].pc = "idle" /\ last'.kind = "ok"
         /\ StatusOf(rel[p].acct) = "FAILED")
      => /\ table' = table
         /\ last'.calls = <<>> /\ last'.current = "FAILED" /\ last'.exit = 0

\* on a leased record the update applied twice gives what it gives once
C34_Twice ==
    \A x \in DOMAIN table :
      Leased(table[x].status) => MarkFailed(MarkFailed(table, x), x) = MarkFailed(table, x)

\* C34: release(id, FAILED) is idempotent: on a FAILED record it leaves the
\* status and the lease_timestamp as they are and runs no cleanup, so that two
\* calls on an IN_USE record leave what one call leaves
C34_MarkFailedIdempotent == []C34_Twice /\ [][C34_Step]_vars

\* the second of two calls has found the record FAILED and left it so
C34_Witness ==
    /\ nRel = 2 /\ last.kind = "ok" /\ last.target = "FAILED" /\ last.current = "FAILED"
    /\ table[last.acct] = Item("FAILED", 0)

\* ------------------------------------------------------------------ C35
\* a step keeps the account ids of the table, and a record stays a status
\* with a lease_timestamp
C35_Step ==
    /\ DOMAIN table' = DOMAIN table
    /\ \A x \in DOMAIN table :
         /\ DOMAIN table'[x] = {"status", "ts"}
         /\ table'[x].status \in {"AVAILABLE", "IN_USE", "FAILED", "DIRTY"}

\* C35: no step of lease_account, release_account or the janitor adds a
\* record to the table or removes one; records change in status and
\* lease_timestamp only
C35_PoolFixed == [][C35_Step]_vars

\* release_account was called for an id the pool does not hold, after an
\* acquire and a sweep have run, and the pool still does not hold it
C35_Witness ==
    /\ last.proc \in Releasers /\ last.kind = "not_found" /\ last.acct \notin DOMAIN table
    /\ nAcq >= 1 /\ nSweep >= 1
    /\ \E x \in DOMAIN table : table[x].status # "AVAILABLE"

====
